---- MODULE Spec2Model ----
(***************************************************************************)
(* The Backup Fire agent: its start (backupFire: the handler it installs   *)
(* and the initialization ping) and the users-backup flow, the POST /users *)
(* middleware (backupUsersMiddleware), backupUsers and tmpPath, together   *)
(* with the local temporary filesystem the concurrent requests share.      *)
(***************************************************************************)
EXTENDS Integers, Sequences, FiniteSets, TLC

\* The largest number of user records an exported file holds.
MaxUsers == 2

\* The requests the agent receives, numbered as they arrive; their handlers
\* may overlap in time.
Reqs == {1, 2}

(***************************************************************************)
(* JavaScript values.  A value that may be undefined is Undefined or       *)
(* Def(v).                                                                 *)
(***************************************************************************)
Undefined == [defined |-> FALSE]

Def(v) == [defined |-> TRUE, value |-> v]

\* Bucket identifiers a controller may send as storageId.
BucketIds == {"b1", "b2"}

\* Destination paths in a bucket, as their segments: "x/users.json", ...
DestPaths == {<<"x", "users.json">>, <<"y", "users.json">>, <<"z", "other.json">>}

\* What file.metadata.size may report after an upload.
Sizes == {"512", "1024"}

\* The request bodies: storageId and path, each possibly missing.
Bodies ==
  [storageId : {Undefined} \cup {Def(b) : b \in BucketIds},
   path : {Undefined} \cup {Def(p) : p \in DestPaths}]

(***************************************************************************)
(* The "backupfire" environment configuration.  The allowlist setting is   *)
(* a string, modelled as its tokens: bucket names and "," ("" is <<>>).    *)
(***************************************************************************)
EnvAllowlists == {Undefined, Def(<<>>), Def(<<"b1">>)}

EnvConfigs == {Undefined} \cup {Def([allowlist |-> a]) : a \in EnvAllowlists}

\* allowlist.split(','): the pieces between the commas.
RECURSIVE splitFrom(_, _, _)
splitFrom(str, i, piece) ==
  IF i > Len(str) THEN <<piece>>
  ELSE IF str[i] = "," THEN <<piece>> \o splitFrom(str, i + 1, "")
  ELSE splitFrom(str, i + 1, str[i])

split(str) == splitFrom(str, 1, "")

\* The option as it would be without the guard for the empty setting:
\* "".split(',') is [""].
bucketsAllowlistOf_AlwaysSplit(allowlist) ==
  IF allowlist.defined THEN Def(split(allowlist.value)) ELSE Undefined

\* (envConfig.allowlist && envConfig.allowlist.split(',')) || undefined
bucketsAllowlistOf(allowlist) ==
  IF allowlist.defined /\ allowlist.value # <<>>
  THEN Def(split(allowlist.value))
  ELSE Undefined

\* The values of BackupFireOptions.bucketsAllowlist: undefined or a list.
Allowlists == {bucketsAllowlistOf(a) : a \in EnvAllowlists}

(***************************************************************************)
(* The runtime environment: process.env, getRuntimeEnv and                 *)
(* isCompleteRuntimeEnv.                                                   *)
(***************************************************************************)
defaultRegion == "us-central1"

ProcessEnvs ==
  [GCP_PROJECT : {Undefined, Def(""), Def("proj")},
   GCLOUD_PROJECT : {Undefined, Def("proj")},
   FUNCTION_NAME : {Undefined, Def("backupfire"), Def("other")},
   FUNCTION_TARGET : {Undefined, Def("backupfire")}]

\* !!x for a string that may be undefined.
Truthy(x) == x.defined /\ x.value # ""

\* a || b
Or(a, b) == IF Truthy(a) THEN a ELSE b

getRuntimeEnv(penv) ==
  [region |-> Def(defaultRegion),
   projectId |-> Or(penv.GCP_PROJECT, penv.GCLOUD_PROJECT),
   functionName |-> Or(penv.FUNCTION_NAME, penv.FUNCTION_TARGET)]

\* isCompleteRuntimeEnv as it would be without the project id test.
isCompleteRuntimeEnv_NoProjectId(runtimeEnv) ==
  Truthy(runtimeEnv.functionName) /\ Truthy(runtimeEnv.region)

isCompleteRuntimeEnv(runtimeEnv) ==
  /\ Truthy(runtimeEnv.functionName)
  /\ Truthy(runtimeEnv.projectId)
  /\ Truthy(runtimeEnv.region)

\* backupFire as it would be with the ping sent before the checks.
backupFire_PingFirst(config, runtimeEnv) ==
  IF ~config.defined THEN <<"sendInitializationPing", "dummyHandler">>
  ELSE IF runtimeEnv.functionName # Def("backupfire")
  THEN <<"sendInitializationPing", "dummyHandler">>
  ELSE IF ~isCompleteRuntimeEnv(runtimeEnv)
  THEN <<"sendInitializationPing", "dummyHandler">>
  ELSE <<"sendInitializationPing", "createApp">>

\* backupFire as it would be without the function name test.
backupFire_NoNameCheck(config, runtimeEnv) ==
  IF ~config.defined THEN <<"dummyHandler">>
  ELSE IF ~isCompleteRuntimeEnv(runtimeEnv) THEN <<"dummyHandler">>
  ELSE <<"sendInitializationPing", "createApp">>

\* backupFire: what it calls, in order; the last call makes the handler
\* it returns.
backupFire(config, runtimeEnv) ==
  IF ~config.defined THEN <<"dummyHandler">>
  ELSE IF runtimeEnv.functionName # Def("backupfire") THEN <<"dummyHandler">>
  ELSE IF ~isCompleteRuntimeEnv(runtimeEnv) THEN <<"dummyHandler">>
  ELSE <<"sendInitializationPing", "createApp">>

(***************************************************************************)
(* tmpPath: resolve(tmpdir(), parse(path).base).  Only the last segment    *)
(* of the destination path survives.                                       *)
(***************************************************************************)
tmpdir == <<"tmp">>

base(path) == path[Len(path)]

tmpPath(path) == tmpdir \o <<base(path)>>

TmpPaths == {tmpPath(p) : p \in DestPaths}

(***************************************************************************)
(* The text of a file, as its JSON tokens, and JSON.parse on it.           *)
(***************************************************************************)
RECURSIVE UserList(_)
UserList(n) ==
  IF n = 0 THEN <<>>
  ELSE IF n = 1 THEN <<"{", "}">>
  ELSE UserList(n - 1) \o <<",", "{", "}">>

\* What the identity export writes for n accounts: {"users": [{}, ..., {}]}
UsersText(n) == <<"{", "users", ":", "[">> \o UserList(n) \o <<"]", "}">>

\* A file cut short while it was written.
Truncated(text) == SubSeq(text, 1, Len(text) - 1)

\* The texts an export may leave in the file when it reports success.
ExportTexts ==
  {UsersText(n) : n \in 0..MaxUsers}
    \cup {Truncated(UsersText(MaxUsers)),
          <<"null">>,
          <<"{", "}">>,
          <<"{", "users", ":", "7", "}">>}

\* A file that does not exist.
Missing == <<"ENOENT">>

JNull == [type |-> "null"]

JNumber == [type |-> "number"]

JArray(n) == [type |-> "array", length |-> n]

JAbsent == [type |-> "absent"]

JObject(users) == [type |-> "object", users |-> users]

ParseFail == [ok |-> FALSE, val |-> JNull, next |-> 0]

ParseOk(v, i) == [ok |-> TRUE, val |-> v, next |-> i]

Tok(toks, i) == IF i >= 1 /\ i <= Len(toks) THEN toks[i] ELSE "EOF"

RECURSIVE ParseValue(_, _)
RECURSIVE ParseElements(_, _, _)
ParseValue(toks, i) ==
  LET t == Tok(toks, i) IN
  CASE t = "null" -> ParseOk(JNull, i + 1)
    [] t = "7" -> ParseOk(JNumber, i + 1)
    [] t = "[" ->
         IF Tok(toks, i + 1) = "]" THEN ParseOk(JArray(0), i + 2)
         ELSE ParseElements(toks, i + 1, 0)
    [] t = "{" ->
         IF Tok(toks, i + 1) = "}" THEN ParseOk(JObject(JAbsent), i + 2)
         ELSE IF Tok(toks, i + 1) = "users" /\ Tok(toks, i + 2) = ":"
         THEN LET v == ParseValue(toks, i + 3) IN
              IF v.ok /\ Tok(toks, v.next) = "}"
              THEN ParseOk(JObject(v.val), v.next + 1)
              ELSE ParseFail
         ELSE ParseFail
    [] OTHER -> ParseFail

ParseElements(toks, i, n) ==
  LET v == ParseValue(toks, i) IN
  IF ~v.ok THEN ParseFail
  ELSE IF Tok(toks, v.next) = "," THEN ParseElements(toks, v.next + 1, n + 1)
  ELSE IF Tok(toks, v.next) = "]" THEN ParseOk(JArray(n + 1), v.next + 1)
  ELSE ParseFail

\* JSON.parse: the value, or a SyntaxError.
JSONparse(text) ==
  LET v == ParseValue(text, 1) IN
  IF v.ok /\ v.next = Len(text) + 1
  THEN [thrown |-> FALSE, val |-> v.val]
  ELSE [thrown |-> TRUE, val |-> JNull]

\* ({ users }) => users.length: a number, or undefined, or a TypeError.
usersLength(val) ==
  IF val.type # "object" THEN [thrown |-> TRUE, count |-> Undefined]
  ELSE IF val.users.type \in {"absent", "null"}
  THEN [thrown |-> TRUE, count |-> Undefined]
  ELSE IF val.users.type = "array"
  THEN [thrown |-> FALSE, count |-> Def(val.users.length)]
  ELSE [thrown |-> FALSE, count |-> Undefined]

\* readFile(path, 'utf8').then(JSON.parse).then(users.length).catch(undefined)
countUsers(file) ==
  IF file = Missing THEN Undefined
  ELSE LET parsed == JSONparse(file) IN
       IF parsed.thrown THEN Undefined
       ELSE LET len == usersLength(parsed.val) IN
            IF len.thrown THEN Undefined ELSE len.count

(***************************************************************************)
(* The state.                                                              *)
(*   envConfig         functions.config().backupfire                       *)
(*   runtimeEnv        what getRuntimeEnv returned                         *)
(*   boot              what backupFire called, in order                    *)
(*   handler           the handler backupFire returned: "none" before,     *)
(*                     then "dummy" or "agent"                             *)
(*   ping              the promise of the initialization ping              *)
(*   unhandledRejection  a promise rejected with no handler attached       *)
(*   bucketsAllowlist  the option createApp hands to every middleware      *)
(*   storageBucket     whether the admin app has a default bucket          *)
(*   files             the temporary directory: path -> text, or Missing   *)
(*   stagedBy          path -> the request whose export wrote the file     *)
(*                     that is there now (0: no file); not program state   *)
(* and for the r-th request received                                       *)
(*   pc          where its handler stands                                  *)
(*   options     request.body                                              *)
(*   usersCount, size   the locals of backupUsers                          *)
(*   readText    what readFile handed to JSON.parse                        *)
(*   response    what operationResponse sent                               *)
(*   fault       the rejection that left the handler, with its stage       *)
(*   trace       the steps the handler began and ended, in order           *)
(***************************************************************************)
VARIABLES bucketsAllowlist, storageBucket, files, stagedBy, pc, options,
          usersCount, size, readText, response, fault, trace

VARIABLES envConfig, runtimeEnv, boot, handler, ping, unhandledRejection

\* The state of the start.
startup == <<envConfig, runtimeEnv, boot, handler, ping, unhandledRejection>>

\* The state of the requests and of the temporary directory.
serving == <<files, stagedBy, pc, options, usersCount, size, readText,
             response, fault, trace>>

vars == <<bucketsAllowlist, storageBucket, files, stagedBy, pc, options,
          usersCount, size, readText, response, fault, trace, startup>>

NoResponse == [state |-> "none"]

NoFault == [stage |-> "none", error |-> "none"]

Fault(stage, error) == [stage |-> stage, error |-> error]

\* The errors the platform's export and upload may reject with.
ExportErrors == {"PERMISSION_DENIED"}

UploadErrors == {"QUOTA_EXCEEDED"}

\* A handler between its first await and its end.
InFlight == {"export", "read", "upload", "unlinkFailed", "unlinkCompleted"}

\* A handler that ended: the response was sent, or its promise rejected.
Finished == {"responded", "rejected"}

path(r) == tmpPath(options[r].path.value)

NoRuntimeEnv ==
  [region |-> Undefined, projectId |-> Undefined, functionName |-> Undefined]

Init ==
  /\ envConfig = Undefined
  /\ runtimeEnv = NoRuntimeEnv
  /\ boot = <<>>
  /\ handler = "none"
  /\ ping = "none"
  /\ unhandledRejection = FALSE
  /\ bucketsAllowlist = Undefined
  /\ storageBucket \in BOOLEAN
  /\ files = [p \in TmpPaths |-> Missing]
  /\ stagedBy = [p \in TmpPaths |-> 0]
  /\ pc = [r \in Reqs |-> "idle"]
  /\ options = [r \in Reqs |-> [storageId |-> Undefined, path |-> Undefined]]
  /\ usersCount = [r \in Reqs |-> Undefined]
  /\ size = [r \in Reqs |-> Undefined]
  /\ readText = [r \in Reqs |-> Missing]
  /\ response = [r \in Reqs |-> NoResponse]
  /\ fault = [r \in Reqs |-> NoFault]
  /\ trace = [r \in Reqs |-> <<>>]

\* operationResponse(response, state): the {state, data} envelope is sent.
operationResponse(state) == [state |-> state.state, data |-> state.data]

\* admin.storage().bucket(name): without a name the app's default bucket is
\* used, and without that either the call throws.
bucketThrows(storageId) == ~storageId.defined /\ ~storageBucket

\* path.parse(undefined) throws a TypeError.
tmpPathThrows(p) == ~p.defined

(***************************************************************************)
(* The function is loaded: backupFire reads the configuration and the      *)
(* environment and returns the dummy handler, or sends the ping (its       *)
(* promise is dropped) and returns the agent made by createApp.            *)
(***************************************************************************)
BackupFire(config, penv) ==
  /\ handler = "none"
  /\ envConfig' = config
  /\ runtimeEnv' = getRuntimeEnv(penv)
  /\ boot' = backupFire(config, runtimeEnv')
  /\ handler' = IF boot'[Len(boot')] = "createApp" THEN "agent" ELSE "dummy"
  /\ ping' = IF \E i \in DOMAIN boot' : boot'[i] = "sendInitializationPing"
             THEN "pending" ELSE "none"
  /\ bucketsAllowlist' =
       IF handler' = "agent" THEN bucketsAllowlistOf(config.value.allowlist)
       ELSE Undefined
  /\ UNCHANGED <<unhandledRejection, storageBucket, serving>>

\* fetch(pingURL) resolves: nothing waits for it.
PingResolve ==
  /\ ping = "pending"
  /\ ping' = "resolved"
  /\ UNCHANGED <<envConfig, runtimeEnv, boot, handler, unhandledRejection,
                 bucketsAllowlist, storageBucket, serving>>

\* fetch(pingURL) rejects: the promise sendInitializationPing returned was
\* dropped by backupFire, so the rejection has no handler.
PingReject ==
  /\ ping = "pending"
  /\ ping' = "rejected"
  /\ unhandledRejection' = TRUE
  /\ UNCHANGED <<envConfig, runtimeEnv, boot, handler, bucketsAllowlist,
                 storageBucket, serving>>

\* The dummy handler is called with a request: resp.end().
DummyRequest(r) ==
  /\ handler = "dummy"
  /\ pc[r] = "idle"
  /\ \A s \in Reqs : s < r => pc[s] # "idle"
  /\ pc' = [pc EXCEPT ![r] = "ended"]
  /\ UNCHANGED <<startup, bucketsAllowlist, storageBucket, files, stagedBy,
                 options, usersCount, size, readText, response, fault, trace>>

(***************************************************************************)
(* The handler is called with a request: the body becomes the options,     *)
(* backupUsers runs to its first await, where the export has been started. *)
(* Requests are numbered as they arrive; the controller does not send a    *)
(* request for a destination path another running request is writing.      *)
(***************************************************************************)
Request(r, body) ==
  /\ handler = "agent"
  /\ pc[r] = "idle"
  /\ \A s \in Reqs : s < r => pc[s] # "idle"
  /\ \A s \in Reqs : pc[s] \in InFlight => options[s].path # body.path
  /\ options' = [options EXCEPT ![r] = body]
  /\ IF bucketThrows(body.storageId)
     THEN /\ pc' = [pc EXCEPT ![r] = "rejected"]
          /\ fault' = [fault EXCEPT ![r] = Fault("bucket", "storage/invalid-argument")]
          /\ UNCHANGED trace
     ELSE IF tmpPathThrows(body.path)
     THEN /\ pc' = [pc EXCEPT ![r] = "rejected"]
          /\ fault' = [fault EXCEPT ![r] = Fault("tmpPath", "ERR_INVALID_ARG_TYPE")]
          /\ UNCHANGED trace
     ELSE /\ pc' = [pc EXCEPT ![r] = "export"]
          /\ trace' = [trace EXCEPT ![r] = <<"export.start">>]
          /\ UNCHANGED fault
  /\ UNCHANGED <<startup, bucketsAllowlist, storageBucket, files, stagedBy, usersCount,
                 size, readText, response>>

\* tools.auth.export resolves: the file holds what the export wrote, and
\* readFile is started.
ExportResolve(r, text) ==
  /\ pc[r] = "export"
  /\ files' = [files EXCEPT ![path(r)] = text]
  /\ stagedBy' = [stagedBy EXCEPT ![path(r)] = r]
  /\ pc' = [pc EXCEPT ![r] = "read"]
  /\ trace' = [trace EXCEPT ![r] = @ \o <<"export.end", "verify.start">>]
  /\ UNCHANGED <<startup, bucketsAllowlist, storageBucket, options, usersCount, size,
                 readText, response, fault>>

\* tools.auth.export rejects: the rejection leaves backupUsers and the
\* handler.  The export may have written a part of the file before.
ExportReject(r, error, partial) ==
  /\ pc[r] = "export"
  /\ files' = IF partial
              THEN [files EXCEPT ![path(r)] = Truncated(UsersText(MaxUsers))]
              ELSE files
  /\ stagedBy' = IF partial THEN [stagedBy EXCEPT ![path(r)] = r] ELSE stagedBy
  /\ pc' = [pc EXCEPT ![r] = "rejected"]
  /\ fault' = [fault EXCEPT ![r] = Fault("export", error)]
  /\ trace' = [trace EXCEPT ![r] = @ \o <<"export.end">>]
  /\ UNCHANGED <<startup, bucketsAllowlist, storageBucket, options, usersCount, size,
                 readText, response>>

\* ReadDone as it would be with the parse failure answered at once and
\* without its return: the handler goes on to the upload.
ReadDone_AnswersAndGoesOn(r) ==
  /\ pc[r] = "read"
  /\ readText' = [readText EXCEPT ![r] = files[path(r)]]
  /\ usersCount' = [usersCount EXCEPT ![r] = countUsers(files[path(r)])]
  /\ pc' = [pc EXCEPT ![r] = "upload"]
  /\ IF usersCount'[r] = Undefined
     THEN /\ response' =
               [response EXCEPT ![r] =
                  [state |-> "failed",
                   data |-> [reason |-> "Failed to parse the backup file"]]]
          /\ trace' = [trace EXCEPT ![r] =
                         @ \o <<"verify.end", "respond", "upload.start">>]
     ELSE /\ trace' = [trace EXCEPT ![r] = @ \o <<"verify.end", "upload.start">>]
          /\ UNCHANGED response
  /\ UNCHANGED <<startup, bucketsAllowlist, storageBucket, files, stagedBy,
                 options, size, fault>>

\* ReadDone as it would be with the upload not awaited: the unlink is
\* started while the upload is still running.
ReadDone_UploadNotAwaited(r) ==
  /\ pc[r] = "read"
  /\ readText' = [readText EXCEPT ![r] = files[path(r)]]
  /\ usersCount' = [usersCount EXCEPT ![r] = countUsers(files[path(r)])]
  /\ IF usersCount'[r] = Undefined
     THEN /\ pc' = [pc EXCEPT ![r] = "unlinkFailed"]
          /\ trace' = [trace EXCEPT ![r] = @ \o <<"verify.end", "unlink.start">>]
          /\ UNCHANGED size
     ELSE /\ pc' = [pc EXCEPT ![r] = "unlinkCompleted"]
          /\ size' = [size EXCEPT ![r] = Def("[object Promise]")]
          /\ trace' = [trace EXCEPT ![r] =
                         @ \o <<"verify.end", "upload.start", "unlink.start">>]
  /\ UNCHANGED <<startup, bucketsAllowlist, storageBucket, files, stagedBy, options,
                 response, fault>>

\* The readFile chain settles: usersCount is set; undefined starts the
\* unlink of the parse-failure branch, a count starts the upload.
ReadDone(r) ==
  /\ pc[r] = "read"
  /\ readText' = [readText EXCEPT ![r] = files[path(r)]]
  /\ usersCount' = [usersCount EXCEPT ![r] = countUsers(files[path(r)])]
  /\ IF usersCount'[r] = Undefined
     THEN /\ pc' = [pc EXCEPT ![r] = "unlinkFailed"]
          /\ trace' = [trace EXCEPT ![r] = @ \o <<"verify.end", "unlink.start">>]
     ELSE /\ pc' = [pc EXCEPT ![r] = "upload"]
          /\ trace' = [trace EXCEPT ![r] = @ \o <<"verify.end", "upload.start">>]
  /\ UNCHANGED <<startup, bucketsAllowlist, storageBucket, files, stagedBy, options,
                 size, response, fault>>

\* bucket.upload resolves with the file's metadata: size is set and the
\* unlink of the success branch is started.
UploadResolve(r, s) ==
  /\ pc[r] = "upload"
  /\ files[path(r)] # Missing
  /\ size' = [size EXCEPT ![r] = Def(s)]
  /\ pc' = [pc EXCEPT ![r] = "unlinkCompleted"]
  /\ trace' = [trace EXCEPT ![r] = @ \o <<"upload.end", "unlink.start">>]
  /\ UNCHANGED <<startup, bucketsAllowlist, storageBucket, files, stagedBy, options,
                 usersCount, readText, response, fault>>

\* UploadReject as it would be with a retry: the upload is started again.
UploadReject_Retry(r, error) ==
  /\ pc[r] = "upload"
  /\ error = "ENOENT" <=> files[path(r)] = Missing
  /\ trace' = [trace EXCEPT ![r] = @ \o <<"upload.end", "upload.start">>]
  /\ UNCHANGED <<startup, bucketsAllowlist, storageBucket, files, stagedBy,
                 pc, options, usersCount, size, readText, response, fault>>

\* bucket.upload rejects (always so when the file is gone): the rejection
\* leaves backupUsers and the handler.
UploadReject(r, error) ==
  /\ pc[r] = "upload"
  /\ error = "ENOENT" <=> files[path(r)] = Missing
  /\ pc' = [pc EXCEPT ![r] = "rejected"]
  /\ fault' = [fault EXCEPT ![r] = Fault("upload", error)]
  /\ trace' = [trace EXCEPT ![r] = @ \o <<"upload.end">>]
  /\ UNCHANGED <<startup, bucketsAllowlist, storageBucket, files, stagedBy, options,
                 usersCount, size, readText, response>>

\* The parse failure as it would be with the reason under another key.
parseFailed_OtherKey ==
  [state |-> "failed", data |-> [error |-> "Failed to parse the backup file"]]

\* What backupUsers returns after the unlink of either branch.
parseFailed ==
  [state |-> "failed", data |-> [reason |-> "Failed to parse the backup file"]]

completed(count, s) ==
  [state |-> "completed", data |-> [usersCount |-> count, size |-> s]]

\* unlink settles.  It removes the file, backupUsers returns and the
\* handler sends the result; or the file is gone and unlink rejects.
UnlinkDone(r) ==
  /\ pc[r] \in {"unlinkFailed", "unlinkCompleted"}
  /\ IF files[path(r)] = Missing
     THEN /\ pc' = [pc EXCEPT ![r] = "rejected"]
          /\ fault' = [fault EXCEPT ![r] = Fault("unlink", "ENOENT")]
          /\ trace' = [trace EXCEPT ![r] = @ \o <<"unlink.end">>]
          /\ UNCHANGED <<files, stagedBy, response>>
     ELSE /\ files' = [files EXCEPT ![path(r)] = Missing]
          /\ stagedBy' = [stagedBy EXCEPT ![path(r)] = 0]
          /\ pc' = [pc EXCEPT ![r] = "responded"]
          /\ response' =
               [response EXCEPT ![r] =
                  operationResponse(
                    IF pc[r] = "unlinkFailed" THEN parseFailed
                    ELSE completed(usersCount[r].value, size[r].value))]
          /\ trace' = [trace EXCEPT ![r] = @ \o <<"unlink.end", "respond">>]
          /\ UNCHANGED fault
  /\ UNCHANGED <<startup, bucketsAllowlist, storageBucket, options, usersCount, size,
                 readText>>

Next ==
  \/ \E config \in EnvConfigs, penv \in ProcessEnvs : BackupFire(config, penv)
  \/ PingResolve
  \/ PingReject
  \/ \E r \in Reqs :
    \/ DummyRequest(r)
    \/ \E body \in Bodies : Request(r, body)
    \/ \E text \in ExportTexts : ExportResolve(r, text)
    \/ \E error \in ExportErrors, partial \in BOOLEAN : ExportReject(r, error, partial)
    \/ ReadDone(r)
    \/ \E s \in Sizes : UploadResolve(r, s)
    \/ \E error \in UploadErrors \cup {"ENOENT"} : UploadReject(r, error)
    \/ UnlinkDone(r)

Spec == Init /\ [][Next]_vars

(***************************************************************************)
(* What the properties below read off the state.                           *)
(***************************************************************************)
Has(tr, e) == \E i \in DOMAIN tr : tr[i] = e

Count(tr, e) == Cardinality({i \in DOMAIN tr : tr[i] = e})

\* The request gate's policy: a configured, non-empty allowlist that does
\* not list the request's bucket.
OutsideAllowlist(storageId) ==
  /\ bucketsAllowlist.defined
  /\ Len(bucketsAllowlist.value) > 0
  /\ ~(storageId.defined /\ Has(bucketsAllowlist.value, storageId.value))

Received(r) == pc[r] # "idle"

ExportStarted(r) == Has(trace[r], "export.start")

\* The file request r staged is still in the temporary directory.
ArtifactExists(r) ==
  /\ ExportStarted(r)
  /\ files[path(r)] # Missing
  /\ stagedBy[path(r)] = r

\* The read of request r ended without a count: the file was unreadable,
\* no JSON, or JSON without a users list.
ParseFailed(r) == Has(trace[r], "verify.end") /\ ~usersCount[r].defined

FailedWith(reason) == [state |-> "failed", data |-> [reason |-> reason]]

(***************************************************************************)
(* C1.  A request whose storageId is not in the configured, non-empty      *)
(* bucketsAllowlist is rejected with no side effect: its export is never   *)
(* started, and so no temporary file or upload either.                     *)
(***************************************************************************)
C1_RejectedOutsideAllowlist ==
  \A r \in Reqs :
    (Received(r) /\ OutsideAllowlist(options[r].storageId))
      => (trace[r] = <<>> /\ ~ArtifactExists(r))

(***************************************************************************)
(* C2.  Once a request has finished (response sent, or handler ended),     *)
(* the temporary file it staged no longer exists, whatever the outcome.    *)
(***************************************************************************)
C2_NoArtifactOutlivesRequest ==
  \A r \in Reqs : pc[r] \in Finished => ~ArtifactExists(r)

(***************************************************************************)
(* C3.  If the upload fails, the request ends with a response of state     *)
(* 'failed' whose reason is the upload error, and the temporary file has   *)
(* been deleted.                                                           *)
(***************************************************************************)
C3_UploadFailureIsFailedOperation ==
  \A r \in Reqs :
    fault[r].stage = "upload"
      => /\ pc[r] = "responded"
         /\ response[r] = FailedWith(fault[r].error)
         /\ ~ArtifactExists(r)

(***************************************************************************)
(* C4.  If the export fails, the request ends with a response of state     *)
(* 'failed' whose reason is the export error: the failure does not leave   *)
(* backupUsers as a rejection.                                             *)
(***************************************************************************)
C4_ExportFailureIsFailedOperation ==
  \A r \in Reqs :
    fault[r].stage = "export"
      => /\ pc[r] = "responded"
         /\ response[r] = FailedWith(fault[r].error)

(***************************************************************************)
(* C5.  When the export succeeded but the file could not be read or        *)
(* parsed, the finished request has answered exactly {state: 'failed',     *)
(* data: {reason: 'Failed to parse the backup file'}}, has started no      *)
(* upload, and its temporary file is gone.                                 *)
(***************************************************************************)
C5_ParseFailureIsFailedOperation ==
  \A r \in Reqs :
    (pc[r] \in Finished /\ ParseFailed(r))
      => /\ pc[r] = "responded"
         /\ response[r] = FailedWith("Failed to parse the backup file")
         /\ ~Has(trace[r], "upload.start")
         /\ ~ArtifactExists(r)

(***************************************************************************)
(* C6.  On every path of a finished request that started an export,        *)
(* unlink was invoked on the temporary path exactly once.                  *)
(***************************************************************************)
C6_UnlinkExactlyOnce ==
  \A r \in Reqs :
    (pc[r] \in Finished /\ ExportStarted(r))
      => Count(trace[r], "unlink.start") = 1

(***************************************************************************)
(* C7.  Two requests in flight with different destination paths never      *)
(* share a temporary file: their temporary paths differ, and the file a    *)
(* request is about to parse, upload or delete is there and is the one     *)
(* its own export wrote.                                                   *)
(***************************************************************************)
C7_TmpPathUniquePerRequest ==
  \A r, s \in Reqs :
    (r # s /\ pc[r] \in InFlight /\ pc[s] \in InFlight
       /\ options[r].path # options[s].path)
      => path(r) # path(s)

C7_OwnArtifactOnly ==
  \A r \in Reqs :
    pc[r] \in {"read", "upload", "unlinkFailed", "unlinkCompleted"}
      => (files[path(r)] # Missing /\ stagedBy[path(r)] = r)

\* C7: requests in flight never share a temporary file (both parts above).
C7_NoSharedArtifact == C7_TmpPathUniquePerRequest /\ C7_OwnArtifactOnly

(***************************************************************************)
(* C8.  When the export succeeded, the file read was well formed with N    *)
(* user records (N >= 0) and the upload succeeded reporting size s, the    *)
(* finished request has answered {state: 'completed', data: {usersCount:   *)
(* N, size: s}}.                                                           *)
(***************************************************************************)
C8_CompletedCarriesCountAndSize ==
  \A r \in Reqs : \A n \in 0..MaxUsers :
    (pc[r] \in Finished /\ Has(trace[r], "verify.end")
       /\ readText[r] = UsersText(n) /\ size[r].defined)
      => /\ pc[r] = "responded"
         /\ response[r] = [state |-> "completed",
                           data |-> [usersCount |-> n, size |-> size[r].value]]

(***************************************************************************)
(* C9.  Within one request the steps run in the order export, verify,      *)
(* upload, (unlink,) respond: a step begins only right after the step      *)
(* before it has ended, a step ends only after it began, and the response  *)
(* is sent only after the last step that ran has ended.                    *)
(***************************************************************************)
Rank(e) ==
  CASE e = "export.start" -> 1
    [] e = "export.end" -> 2
    [] e = "verify.start" -> 3
    [] e = "verify.end" -> 4
    [] e = "upload.start" -> 5
    [] e = "upload.end" -> 6
    [] e = "unlink.start" -> 7
    [] e = "unlink.end" -> 8
    [] e = "respond" -> 9
    [] OTHER -> 0

IsEnd(e) == e \in {"export.end", "verify.end", "upload.end", "unlink.end"}

\* What must have happened right before an event.
Before(e) ==
  CASE e = "verify.start" -> {"export.end"}
    [] e = "upload.start" -> {"verify.end"}
    [] e = "unlink.start" -> {"verify.end", "upload.end"}
    [] e = "respond" -> {"export.end", "verify.end", "upload.end", "unlink.end"}
    [] OTHER -> {}

InOrder(tr) ==
  \A i \in DOMAIN tr :
    /\ Rank(tr[i]) > 0
    /\ i = 1 => tr[i] = "export.start"
    /\ i > 1 => Rank(tr[i]) > Rank(tr[i - 1])
    /\ IsEnd(tr[i]) => (i > 1 /\ Rank(tr[i - 1]) = Rank(tr[i]) - 1)
    /\ (i > 1 /\ ~IsEnd(tr[i])) => tr[i - 1] \in Before(tr[i])

\* C9: every request's steps so far are in the order export, verify, upload,
\* unlink, respond, each begun only after the one before ended; a request
\* has answered exactly when "respond" is the last entry of its trace.
C9_StepsInOrder ==
  \A r \in Reqs :
    /\ InOrder(trace[r])
    /\ pc[r] = "responded" => trace[r][Len(trace[r])] = "respond"
    /\ Has(trace[r], "respond") => pc[r] = "responded"

\* A request went through every step and answered.
C9_Witness ==
  \E r \in Reqs :
    trace[r] = <<"export.start", "export.end", "verify.start", "verify.end",
                 "upload.start", "upload.end", "unlink.start", "unlink.end",
                 "respond">>

(***************************************************************************)
(* C10.  A request that lacks storageId or path is rejected by validation  *)
(* before any side effect: its export is never started, and no temporary   *)
(* file or upload is created for it.                                       *)
(***************************************************************************)
C10_MissingFieldRejected ==
  \A r \in Reqs :
    (Received(r)
       /\ (~options[r].storageId.defined \/ ~options[r].path.defined))
      => (trace[r] = <<>> /\ ~ArtifactExists(r))

(***************************************************************************)
(* What the properties of the start read off the state.                    *)
(***************************************************************************)
Started == handler # "none"

\* The dummy handler answered whatever it was sent with an empty response:
\* no request reached a route.
NoRouteReached ==
  \A r \in Reqs :
    /\ pc[r] \in {"idle", "ended"}
    /\ trace[r] = <<>>
    /\ response[r] = NoResponse

(***************************************************************************)
(* C11.  If the project id or the function name cannot be determined from  *)
(* the environment, backupFire installs the no-op handler: no backup route *)
(* is reachable, so no request ever starts an export or an upload.         *)
(***************************************************************************)
C11_IncompleteEnvIsNoOp ==
  (Started /\ (~Truthy(runtimeEnv.projectId) \/ ~Truthy(runtimeEnv.functionName)))
    => (handler = "dummy" /\ NoRouteReached)

\* The function is named backupfire and configured, the project id is
\* missing, and a request was answered by the no-op handler.
C11_Witness ==
  /\ handler = "dummy"
  /\ envConfig.defined
  /\ runtimeEnv.functionName = Def("backupfire")
  /\ ~Truthy(runtimeEnv.projectId)
  /\ \E r \in Reqs : pc[r] = "ended"

(***************************************************************************)
(* C12.  The initialization ping is detached: once it was sent the agent   *)
(* handler is installed whether the ping succeeds, fails or never ends,    *)
(* and a failed ping never becomes an unhandled fault of the process.      *)
(***************************************************************************)
C12_PingNeverFaults ==
  ping # "none" => (handler = "agent" /\ ~unhandledRejection)

(***************************************************************************)
(* C13.  A request answers at most once and its terminal state is never    *)
(* left: once the response was sent or the handler ended, no later step    *)
(* changes the request's state, response or steps, and "respond" never     *)
(* occurs twice among its steps.                                           *)
(***************************************************************************)
C13_TerminalOnce ==
  [][\A r \in Reqs :
       /\ (pc[r] \in Finished \cup {"ended"} \/ response[r] # NoResponse)
            => /\ pc'[r] = pc[r]
               /\ response'[r] = response[r]
               /\ trace'[r] = trace[r]
               /\ fault'[r] = fault[r]
       /\ Count(trace'[r], "respond") <= 1
       /\ (response'[r] # NoResponse) => pc'[r] = "responded"]_vars

\* A request has answered while another one is still in flight.
C13_Witness ==
  \E r, s \in Reqs :
    /\ pc[r] = "responded"
    /\ response[r] # NoResponse
    /\ pc[s] \in InFlight

(***************************************************************************)
(* C14.  When no allowlist is configured (the setting is absent or the     *)
(* empty string), bucketsAllowlist is undefined and no request is rejected *)
(* on policy grounds: a request for any bucket proceeds to the export.     *)
(***************************************************************************)
NoAllowlistConfigured ==
  /\ envConfig.defined
  /\ envConfig.value.allowlist \in {Undefined, Def(<<>>)}

C14_NoAllowlistNoRestriction ==
  (handler = "agent" /\ NoAllowlistConfigured)
    => /\ bucketsAllowlist = Undefined
       /\ \A r \in Reqs :
            (Received(r) /\ options[r].storageId.defined /\ options[r].path.defined)
              => ExportStarted(r)

\* The setting is the empty string and a request for bucket b2 started its
\* export.
C14_Witness ==
  /\ handler = "agent"
  /\ envConfig.defined
  /\ envConfig.value.allowlist = Def(<<>>)
  /\ \E r \in Reqs : ExportStarted(r) /\ options[r].storageId = Def("b2")

(***************************************************************************)
(* C15.  Every response to POST /users is an envelope {state, data} whose  *)
(* state is 'completed' or 'failed', never 'pending'; a completed one      *)
(* carries exactly usersCount and size, a failed one a reason.             *)
(***************************************************************************)
C15_ResponseEnvelope ==
  \A r \in Reqs :
    /\ pc[r] = "responded" => response[r] # NoResponse
    /\ response[r] # NoResponse
         => /\ DOMAIN response[r] = {"state", "data"}
            /\ response[r].state \in {"completed", "failed"}
            /\ response[r].state = "completed"
                 => /\ DOMAIN response[r].data = {"usersCount", "size"}
                    /\ response[r].data.usersCount \in 0..MaxUsers
                    /\ response[r].data.size \in Sizes
            /\ response[r].state = "failed"
                 => DOMAIN response[r].data = {"reason"}

\* One request answered 'completed', another 'failed'.
C15_Witness ==
  \E r, s \in Reqs :
    /\ response[r] # NoResponse /\ response[r].state = "completed"
    /\ response[s] # NoResponse /\ response[s].state = "failed"

(***************************************************************************)
(* C16.  No retry: within one request the export is invoked at most once   *)
(* and the upload at most once, whatever their outcomes.                   *)
(***************************************************************************)
C16_NoRetry ==
  \A r \in Reqs :
    /\ Count(trace[r], "export.start") <= 1
    /\ Count(trace[r], "upload.start") <= 1

\* One request ended on a failed export, another on a failed upload.
C16_Witness ==
  \E r, s \in Reqs :
    /\ pc[r] = "rejected" /\ fault[r].stage = "export"
    /\ pc[s] = "rejected" /\ fault[s].stage = "upload"

(***************************************************************************)
(* C17.  backupFire installs the agent handler if and only if the          *)
(* configuration is present, the function name is 'backupfire' and the     *)
(* project id is set; otherwise it installs the no-op handler, which ends  *)
(* every response with no body.                                            *)
(***************************************************************************)
C17_AgentIffConfigured ==
  Started
    => /\ handler = "agent"
            <=> /\ envConfig.defined
                /\ runtimeEnv.functionName = Def("backupfire")
                /\ Truthy(runtimeEnv.projectId)
       /\ handler # "agent" => (handler = "dummy" /\ NoRouteReached)

\* A configured, complete environment whose function has another name: a
\* request was answered by the no-op handler.
C17_Witness ==
  /\ handler = "dummy"
  /\ envConfig.defined
  /\ runtimeEnv.functionName = Def("other")
  /\ Truthy(runtimeEnv.projectId)
  /\ \E r \in Reqs : pc[r] = "ended"

(***************************************************************************)
(* C18.  The initialization ping is sent exactly once when the agent       *)
(* handler is installed, before the handler is made and returned, and      *)
(* never when the no-op handler is installed.                              *)
(***************************************************************************)
C18_PingOnceBeforeAgent ==
  /\ handler = "agent"
       => /\ Count(boot, "sendInitializationPing") = 1
          /\ \E i, j \in DOMAIN boot :
               /\ i < j
               /\ boot[i] = "sendInitializationPing"
               /\ boot[j] = "createApp"
          /\ ping # "none"
  /\ handler = "dummy"
       => /\ Count(boot, "sendInitializationPing") = 0
          /\ ping = "none"

\* The agent is installed and its ping has been answered.
C18_Witness == handler = "agent" /\ ping = "resolved"

(***************************************************************************)
(* C19.  A file that is valid JSON without a usable users list (null, no   *)
(* 'users' key, 'users' without a length) is treated like a malformed      *)
(* file: the finished request has answered {state: 'failed', data:         *)
(* {reason: 'Failed to parse the backup file'}} and started no upload.  An *)
(* empty users list whose upload succeeded is answered 'completed' with    *)
(* usersCount 0.                                                           *)
(***************************************************************************)
NoUsableUsers == {<<"null">>, <<"{", "}">>, <<"{", "users", ":", "7", "}">>}

C19_NoUsersListIsParseFailure ==
  \A r \in Reqs :
    (pc[r] \in Finished /\ Has(trace[r], "verify.end"))
      => /\ readText[r] \in NoUsableUsers
              => /\ usersCount[r] = Undefined
                 /\ ~Has(trace[r], "upload.start")
                 /\ pc[r] = "responded"
                 /\ response[r] = FailedWith("Failed to parse the backup file")
         /\ (readText[r] = UsersText(0) /\ size[r].defined)
              => /\ usersCount[r] = Def(0)
                 /\ pc[r] = "responded"
                 /\ response[r].state = "completed"
                 /\ response[r].data.usersCount = 0

====
